---- MODULE Spec2Model ----
(***************************************************************************)
(* GameNest (src/GameNest.py): the game catalog of GameNestLauncher, its   *)
(* JSON persistence (load_games / save_games, GameEntry.to_dict /          *)
(* from_dict) and the detection heuristic (detect_games / find_game_exe).  *)
(*                                                                         *)
(* Python resolves a method name to the LAST definition in the class body, *)
(* so the handlers modelled are the last definitions of                    *)
(* launch_selected_game (753), add_game_manually (835), add_scan_folder    *)
(* (949), remove_scan_folder (958) and reset_games_list (971).  The        *)
(* module-level launch_selected_game (68) is never bound to the class.     *)
(***************************************************************************)
EXTENDS Integers, Sequences, FiniteSets, TLC

VARIABLES
    games,                  \* self.games: list of GameEntry
    custom_scan_folders,    \* self.custom_scan_folders
    custom_background_path, \* self.custom_background_path
    bg_blur_amount,         \* self.bg_blur_amount
    blur_slider,            \* self.blur_slider.value()
    disk,                   \* contents of self.games_file
    pc,                     \* position of the program / of the blocked handler
    candidates,             \* detect_games: the local list shown in the dialog
    folder_path,            \* find_game_exe: its argument
    walk,                   \* find_game_exe: the file paths os.walk yields
    exe_found,              \* find_game_exe: its result
    doc0,                   \* the document a round trip started from
    ev,                     \* the handler that ran last, with its inputs
    steps                   \* handlers run since the launcher was started

vars == <<games, custom_scan_folders, custom_background_path, bg_blur_amount,
          blur_slider, disk, pc, candidates, folder_path, walk, exe_found, doc0, ev, steps>>

(***************************************************************************)
(* Bounds of the model.                                                    *)
(***************************************************************************)
MaxGames == 2       \* longest games list the running launcher is driven to
MaxSteps == 4       \* handlers run in one session of the launcher
MaxFiles == 3       \* longest os.walk listing given to find_game_exe
MaxDocGames == 2    \* longest games list of a round-tripped document

(***************************************************************************)
(* Python values.                                                          *)
(***************************************************************************)
None == "<None>"

\* dict.get(key, default)
get(d, key, default) == IF key \in DOMAIN d THEN d[key] ELSE default

(***************************************************************************)
(* str methods and os.path functions used by the program (ntpath).         *)
(***************************************************************************)
ascii_uppercase == "ABCDEFGHIJKLMNOPQRSTUVWXYZ"
ascii_lowercase == "abcdefghijklmnopqrstuvwxyz"

char(s, i) == SubSeq(s, i, i)

lower_char(c) ==
    IF \E i \in 1..26 : char(ascii_uppercase, i) = c
    THEN char(ascii_lowercase, CHOOSE i \in 1..26 : char(ascii_uppercase, i) = c)
    ELSE c

RECURSIVE lower(_)
\* str.lower()
lower(s) == IF Len(s) = 0 THEN "" ELSE lower_char(char(s, 1)) \o lower(SubSeq(s, 2, Len(s)))

\* sub in s
contains(sub, s) == \E i \in 1..(Len(s) - Len(sub) + 1) : SubSeq(s, i, i + Len(sub) - 1) = sub

\* s.endswith(suffix)
endswith(s, suffix) ==
    /\ Len(s) >= Len(suffix)
    /\ SubSeq(s, Len(s) - Len(suffix) + 1, Len(s)) = suffix

\* index of the last path separator of p, 0 when there is none
last_sep(p) ==
    LET seps == {i \in 1..Len(p) : char(p, i) \in {"\\", "/"}}
    IN IF seps = {} THEN 0 ELSE CHOOSE i \in seps : \A j \in seps : j <= i

\* os.path.basename(p)
basename(p) == SubSeq(p, last_sep(p) + 1, Len(p))

\* os.path.splitext(name)[0] of a name without separators: the extension
\* starts at the last dot, unless only dots precede it
splitext0(name) ==
    LET dots == {i \in 1..Len(name) : char(name, i) = "."}
        last == IF dots = {} THEN 0 ELSE CHOOSE i \in dots : \A j \in dots : j <= i
    IN IF last = 0 \/ (\A j \in 1..last : char(name, j) = ".")
       THEN name
       ELSE SubSeq(name, 1, last - 1)

\* os.path.join(a, b) for a relative b
join(a, b) == a \o "\\" \o b

(***************************************************************************)
(* Sequence helpers.                                                       *)
(***************************************************************************)
Range(s) == {s[i] : i \in 1..Len(s)}

\* index of the first element of s that passes Test, 0 when none does:
\* "for x in s: if Test(x): return x"
first(s, Test(_)) ==
    LET hits == {i \in 1..Len(s) : Test(s[i])}
    IN IF hits = {} THEN 0 ELSE CHOOSE i \in hits : \A j \in hits : i <= j

\* the sequences of at most n distinct elements of S
SeqsNoRep(S, n) ==
    UNION {{s \in [1..k -> S] : \A i, j \in 1..k : i # j => s[i] # s[j]} : k \in 0..n}

(***************************************************************************)
(* GameNestLauncher.detect_games.find_game_exe                             *)
(***************************************************************************)
exclusions == {"unitycrashhandler", "_data", "_x64"}

\* any(x in os.path.basename(c).lower() for x in [...])
excluded(c) == \E x \in exclusions : contains(x, lower(basename(c)))

NameMatch(fp, c) ==
    /\ contains(lower(basename(fp)), lower(splitext0(basename(c))))
    /\ ~excluded(c)

LauncherMatch(c) ==
    /\ contains("launcher", lower(basename(c)))
    /\ ~excluded(c)

\* f.lower().endswith(".exe"), f the file name of the walked path
IsExe(f) == endswith(lower(basename(f)), ".exe")

\* find_game_exe with the exclusion test of the first loop left out
find_game_exe_no_exclusion(fp, files) ==
    LET cands      == SelectSeq(files, IsExe)
        MatchN(c)  == contains(lower(basename(fp)), lower(splitext0(basename(c))))
        NotExcl(c) == ~excluded(c)
        filtered   == SelectSeq(cands, NotExcl)
    IN IF cands = <<>> THEN None
       ELSE IF first(cands, MatchN) # 0 THEN cands[first(cands, MatchN)]
       ELSE IF first(cands, LauncherMatch) # 0 THEN cands[first(cands, LauncherMatch)]
       ELSE IF filtered # <<>> THEN filtered[1]
       ELSE cands[1]

\* find_game_exe with the launcher loop run before the name loop
find_game_exe_launcher_first(fp, files) ==
    LET cands      == SelectSeq(files, IsExe)
        MatchN(c)  == NameMatch(fp, c)
        NotExcl(c) == ~excluded(c)
        filtered   == SelectSeq(cands, NotExcl)
    IN IF cands = <<>> THEN None
       ELSE IF first(cands, LauncherMatch) # 0 THEN cands[first(cands, LauncherMatch)]
       ELSE IF first(cands, MatchN) # 0 THEN cands[first(cands, MatchN)]
       ELSE IF filtered # <<>> THEN filtered[1]
       ELSE cands[1]

\* find_game_exe returning the first candidate, whatever it is
find_game_exe_first_candidate(fp, files) ==
    LET cands == SelectSeq(files, IsExe)
    IN IF cands = <<>> THEN None ELSE cands[1]

\* find_game_exe(folder_path), given the file paths that os.walk(folder_path) yields
find_game_exe(fp, files) ==
    LET cands      == SelectSeq(files, IsExe)
        MatchN(c)  == NameMatch(fp, c)
        NotExcl(c) == ~excluded(c)
        filtered   == SelectSeq(cands, NotExcl)
    IN IF cands = <<>> THEN None
       ELSE IF first(cands, MatchN) # 0 THEN cands[first(cands, MatchN)]
       ELSE IF first(cands, LauncherMatch) # 0 THEN cands[first(cands, LauncherMatch)]
       ELSE IF filtered # <<>> THEN filtered[1]
       ELSE cands[1]

(***************************************************************************)
(* GameEntry and its JSON form.  A dict is a function from its keys.       *)
(***************************************************************************)
\* GameEntry.__init__(name, path, icon_path)
GameEntry(name, path, icon_path) ==
    [name |-> name, path |-> path, icon_path |-> icon_path,
     is_favorite |-> FALSE, notes |-> "", last_played |-> "Never",
     total_playtime |-> 0]

\* to_dict without the total_playtime key
to_dict_no_playtime(g) ==
    [name |-> g.name, path |-> g.path, icon_path |-> g.icon_path,
     is_favorite |-> g.is_favorite, notes |-> g.notes,
     last_played |-> g.last_played]

\* GameEntry.to_dict
to_dict(g) ==
    [name |-> g.name, path |-> g.path, icon_path |-> g.icon_path,
     is_favorite |-> g.is_favorite, notes |-> g.notes,
     last_played |-> g.last_played, total_playtime |-> g.total_playtime]

\* GameEntry.from_dict raises KeyError unless both keys are present
from_dict_raises(data) == ~({"name", "path"} \subseteq DOMAIN data)

\* from_dict stopping after the constructor call: the stored is_favorite,
\* notes, last_played and total_playtime are not read
from_dict_constructor_only(data) ==
    GameEntry(data["name"], data["path"], get(data, "icon_path", None))

\* GameEntry.from_dict
from_dict(data) ==
    [GameEntry(data["name"], data["path"], get(data, "icon_path", None))
        EXCEPT !.is_favorite = get(data, "is_favorite", FALSE),
               !.notes = get(data, "notes", ""),
               !.last_played = get(data, "last_played", "Never"),
               !.total_playtime = get(data, "total_playtime", 0)]

(***************************************************************************)
(* The file self.games_file.                                               *)
(***************************************************************************)
Absent  == [kind |-> "absent"]                  \* os.path.exists is False
Garbage == [kind |-> "garbage"]                 \* unreadable, or not JSON
JsonFile(data) == [kind |-> "json", data |-> data]

\* the object save_games hands to json.dump
save_doc(gs, folders, background, blur) ==
    [games |-> [i \in 1..Len(gs) |->
                   [to_dict(gs[i]) EXCEPT !.notes = gs[i].notes,
                                          !.last_played = gs[i].last_played]],
     custom_scan_folders |-> folders,
     custom_background_path |-> background,
     custom_background_blur |-> blur]

\* the file after a save_games whose write succeeds
save_games(gs, folders, background, blur) ==
    JsonFile(save_doc(gs, folders, background, blur))

\* QSlider.setValue clamps to [minimum, maximum]
slider_min == 0
slider_max == 20
clamp(v) == IF v < slider_min THEN slider_min ELSE IF v > slider_max THEN slider_max ELSE v

\* the for loop of load_games: the entries before the first one from_dict
\* rejects, each built by from_dict, then notes and last_played set again
load_entries(xs) ==
    LET bad == first(xs, from_dict_raises)
        n   == IF bad = 0 THEN Len(xs) ELSE bad - 1
    IN [i \in 1..n |->
          [from_dict(xs[i]) EXCEPT !.notes = get(xs[i], "notes", ""),
                                   !.last_played = get(xs[i], "last_played", "Never")]]

\* load_games on a constructed launcher (games [], no folders, no background,
\* blur 0, slider 0): the state it leaves, [failed] telling whether the
\* except branch ran
load_games(file) ==
    LET fresh == [games |-> <<>>, custom_scan_folders |-> <<>>,
                  custom_background_path |-> None, bg_blur_amount |-> 0,
                  blur_slider |-> 0, disk |-> file, failed |-> FALSE]
    IN IF file.kind = "absent"
       THEN [fresh EXCEPT !.disk = save_games(<<>>, <<>>, None, 0)]
       ELSE IF file.kind = "garbage"
       THEN [fresh EXCEPT !.failed = TRUE]
       ELSE LET data == file.data
                xs   == get(data, "games", <<>>)
                gs   == load_entries(xs)
            IN IF Len(gs) < Len(xs)
               THEN [fresh EXCEPT !.games = gs, !.failed = TRUE]
               ELSE LET folders == get(data, "custom_scan_folders", <<>>)
                        bg      == get(data, "custom_background_path", None)
                        blur    == get(data, "custom_background_blur", 0)
                    IN IF clamp(blur) = 0
                       \* setValue leaves the slider where it is: no signal
                       THEN [fresh EXCEPT !.games = gs,
                                          !.custom_scan_folders = folders,
                                          !.custom_background_path = bg,
                                          !.bg_blur_amount = blur]
                       \* valueChanged -> set_background_blur(clamp(blur))
                       ELSE [fresh EXCEPT !.games = gs,
                                          !.custom_scan_folders = folders,
                                          !.custom_background_path = bg,
                                          !.bg_blur_amount = clamp(blur),
                                          !.blur_slider = clamp(blur),
                                          !.disk = save_games(gs, folders, bg, clamp(blur))]

(***************************************************************************)
(* The file system the launcher runs on, as detect_games and the file      *)
(* dialogs see it.                                                         *)
(***************************************************************************)
default_folders ==
    << "C:\\Program Files (x86)\\Steam\\steamapps\\common",
       "C:\\Program Files\\Epic Games",
       "C:\\Program Files\\HoYoPlay\\games",
       "C:\\Program Files\\GOG Galaxy\\Games",
       "C:\\Games" >>

GamesRoot == "C:\\Games"
LibRoot   == "D:\\Lib"

\* the roots that may exist when a scan runs; the four store folders do not
Roots == {GamesRoot, LibRoot}

\* os.scandir(root): the entries of an existing root, in listing order
scandir(root) ==
    IF root = GamesRoot
    THEN << [name |-> "Empty",      path |-> join(GamesRoot, "Empty"),      is_dir |-> TRUE],
            [name |-> "Halo",       path |-> join(GamesRoot, "Halo"),       is_dir |-> TRUE],
            [name |-> "readme.txt", path |-> join(GamesRoot, "readme.txt"), is_dir |-> FALSE] >>
    ELSE IF root = LibRoot
    THEN << [name |-> "Game2", path |-> join(LibRoot, "Game2"), is_dir |-> TRUE] >>
    ELSE << >>

\* the file paths os.walk(folder) yields, os.path.join(root, f) for each file
os_walk(folder) ==
    IF folder = join(GamesRoot, "Halo")
    THEN << join(folder, "Halo.exe"),
            join(folder, "HaloLauncher.exe"),
            join(folder, "unitycrashhandler64.exe"),
            join(join(folder, "Halo_Data"), "level0.dat") >>
    ELSE IF folder = join(LibRoot, "Game2")
    THEN << join(folder, "Launcher.exe"),
            join(folder, "UnityCrashHandler64.exe") >>
    ELSE << >>

HaloExe     == join(join(GamesRoot, "Halo"), "Halo.exe")
LauncherExe == join(join(LibRoot, "Game2"), "Launcher.exe")

\* os.path.dirname(p)
dirname(p) == SubSeq(p, 1, last_sep(p) - 1)

\* the executables ExtractIconEx finds an icon in; no folder holds an .ico
HasIcon == {HaloExe}

\* get_game_icon(exe_path)
get_game_icon(exe_path) ==
    IF exe_path \in HasIcon
    THEN join(dirname(exe_path), splitext0(basename(exe_path)) \o ".bmp")
    ELSE None

\* every file under the roots
AllFiles ==
    UNION {Range(os_walk(e.path)) :
              e \in UNION {Range(scandir(root)) : root \in Roots}}

\* get_game_icon(exe_path) and os.path.splitext(os.path.basename(exe))[0]
\* for every file, computed once
icon_of == [f \in AllFiles |-> get_game_icon(f)]
stem_of == [f \in AllFiles |-> splitext0(basename(f))]

(***************************************************************************)
(* What the user can enter in the dialogs.                                 *)
(***************************************************************************)
ManualChoices     == {HaloExe, LauncherExe}  \* add_game_manually's file dialog
FolderChoices     == {GamesRoot, LibRoot}    \* add_scan_folder's dialog
NewNames          == {"", "Zed"}             \* rename_game's input dialog
NoteTexts         == {"", "gg"}              \* edit_notes' input dialog
BackgroundChoices == {"C:\\bg.png"}          \* set_custom_background's dialog
BlurChoices       == {0, 20}                 \* positions the slider is moved to

\* the files found at start-up
Doc1 ==
    [games |-> << [name |-> "Game2", path |-> LauncherExe, icon_path |-> None,
                   is_favorite |-> TRUE, notes |-> "",
                   last_played |-> "2024-01-01 10:00:00",
                   total_playtime |-> 125] >>,
     custom_scan_folders |-> << LibRoot >>,
     custom_background_path |-> None,
     custom_background_blur |-> 0]

InitialFiles == {Absent, JsonFile(Doc1)}

(***************************************************************************)
(* The running launcher.                                                   *)
(***************************************************************************)
\* next((g for g in self.games if g.path == path), None), as an index
game_at(gs, path) ==
    LET IsIt(g) == g.path = path IN first(gs, IsIt)

\* the paths the sidebar items carry: refresh_sidebar lists every game
sidebar_paths == {games[i].path : i \in 1..Len(games)}

Idle == pc = "run"

\* the record kept of the handler that ran: its name, the path or folder it
\* was given, whether it went through, for a launch how long the game ran,
\* for a scan the roots it went over, those of the listed folders that
\* existed and those of the scanned roots whose listing raised,
\* for a handler that saves what became of the write, and for an accepted
\* dialog the rows that were selected
Event(op, arg, ok, d) ==
    [op |-> op, arg |-> arg, ok |-> ok, d |-> d, roots |-> << >>,
     present |-> {}, denied |-> {}, write |-> "none", rows |-> << >>]

\* the record of a handler that called save_games, the write ending as w
SaveEvent(op, arg, w) == [Event(op, arg, TRUE, 0) EXCEPT !.write = w]

\* one more handler has run; the variables of the other specifications rest
Tick ==
    /\ steps < MaxSteps
    /\ steps' = steps + 1
    /\ UNCHANGED <<folder_path, walk, exe_found, doc0>>

\* the constructor, before it calls load_games
Constructed ==
    /\ games = <<>>
    /\ custom_scan_folders = <<>>
    /\ custom_background_path = None
    /\ bg_blur_amount = 0
    /\ blur_slider = 0
    /\ candidates = <<>>

Init ==
    /\ Constructed
    /\ disk \in InitialFiles
    /\ pc = "boot"
    /\ folder_path = "" /\ walk = <<>> /\ exe_found = None /\ doc0 = None
    /\ ev = Event("init", "", TRUE, 0)
    /\ steps = 0

\* __init__: self.load_games()
LoadGames ==
    /\ pc = "boot"
    /\ LET r == load_games(disk) IN
        /\ games' = r.games
        /\ custom_scan_folders' = r.custom_scan_folders
        /\ custom_background_path' = r.custom_background_path
        /\ bg_blur_amount' = r.bg_blur_amount
        /\ blur_slider' = r.blur_slider
        /\ disk' = r.disk
    /\ pc' = "run"
    /\ UNCHANGED candidates
    /\ ev' = Event("load_games", "", ~load_games(disk).failed, 0)
    /\ Tick

\* what open(self.games_file, "w") and json.dump can come to: the document
\* is written; open raises and the file stays as it was; or the file is
\* opened, which truncates it, and the write raises part-way
WriteOutcomes == {"ok", "open_fails", "write_fails"}

\* the file after save_games's with-block ended as w; the except branch
\* shows a warning and returns
write_file(w, file, content) ==
    IF w = "ok" THEN content
    ELSE IF w = "open_fails" THEN file
    ELSE Garbage

\* self.save_games() after the handler's assignments
Save(w) == disk' = write_file(w, disk,
                              save_games(games', custom_scan_folders',
                                         custom_background_path', bg_blur_amount'))

\* add_game_manually (the last definition): exe is the file the dialog returns
AddGameManually(exe, w) ==
    /\ Idle
    /\ Len(games) < MaxGames
    /\ games' = Append(games, GameEntry(stem_of[exe], exe, icon_of[exe]))
    /\ UNCHANGED <<custom_scan_folders, custom_background_path, bg_blur_amount>>
    /\ Save(w)
    /\ UNCHANGED <<blur_slider, pc, candidates>>
    /\ ev' = SaveEvent("add_game_manually", exe, w)
    /\ Tick

\* rename_game, from the context menu of the item that carries path
RenameGame(path, new_name, w) ==
    /\ Idle
    /\ path \in sidebar_paths
    /\ IF new_name # ""
       THEN /\ games' = [games EXCEPT ![game_at(games, path)].name = new_name]
            /\ UNCHANGED <<custom_scan_folders, custom_background_path, bg_blur_amount>>
            /\ Save(w)
            /\ ev' = SaveEvent("rename_game", path, w)
       ELSE /\ w = "ok"
            /\ UNCHANGED <<games, custom_scan_folders, custom_background_path,
                           bg_blur_amount, disk>>
            /\ ev' = Event("rename_game", path, FALSE, 0)
    /\ UNCHANGED <<blur_slider, pc, candidates>>
    /\ Tick

\* self.games.remove(game): the list without its element number i
remove_at(gs, i) == [j \in 1..(Len(gs) - 1) |-> IF j < i THEN gs[j] ELSE gs[j + 1]]

\* remove_game, from the context menu; confirm is the answer to the question
RemoveGame(path, confirm, w) ==
    /\ Idle
    /\ path \in sidebar_paths
    /\ IF confirm
       THEN /\ games' = remove_at(games, game_at(games, path))
            /\ UNCHANGED <<custom_scan_folders, custom_background_path, bg_blur_amount>>
            /\ Save(w)
            /\ ev' = SaveEvent("remove_game", path, w)
       ELSE /\ w = "ok"
            /\ UNCHANGED <<games, custom_scan_folders, custom_background_path,
                           bg_blur_amount, disk>>
            /\ ev' = Event("remove_game", path, FALSE, 0)
    /\ UNCHANGED <<blur_slider, pc, candidates>>
    /\ Tick

\* edit_notes, from the context menu; the dialog was accepted with text
EditNotes(path, text, w) ==
    /\ Idle
    /\ path \in sidebar_paths
    /\ games' = [games EXCEPT ![game_at(games, path)].notes = text]
    /\ UNCHANGED <<custom_scan_folders, custom_background_path, bg_blur_amount>>
    /\ Save(w)
    /\ UNCHANGED <<blur_slider, pc, candidates>>
    /\ ev' = SaveEvent("edit_notes", path, w)
    /\ Tick

\* toggle_favorite; path is the data of self.sidebar.currentItem()
ToggleFavorite(path, w) ==
    /\ Idle
    /\ path \in sidebar_paths
    /\ games' = [games EXCEPT ![game_at(games, path)].is_favorite = ~@]
    /\ UNCHANGED <<custom_scan_folders, custom_background_path, bg_blur_amount>>
    /\ Save(w)
    /\ UNCHANGED <<blur_slider, pc, candidates>>
    /\ ev' = SaveEvent("toggle_favorite", path, w)
    /\ Tick

\* reset_games_list (the last definition)
ResetGamesList(confirm, w) ==
    /\ Idle
    /\ IF confirm
       THEN /\ games' = <<>>
            /\ UNCHANGED <<custom_scan_folders, custom_background_path, bg_blur_amount>>
            /\ Save(w)
            /\ ev' = SaveEvent("reset_games_list", "", w)
       ELSE /\ w = "ok"
            /\ UNCHANGED <<games, custom_scan_folders, custom_background_path,
                           bg_blur_amount, disk>>
            /\ ev' = Event("reset_games_list", "", FALSE, 0)
    /\ UNCHANGED <<blur_slider, pc, candidates>>
    /\ Tick

\* add_scan_folder (the last definition)
AddScanFolder(folder) ==
    /\ Idle
    /\ custom_scan_folders' =
          IF folder \notin Range(custom_scan_folders)
          THEN Append(custom_scan_folders, folder)
          ELSE custom_scan_folders
    /\ UNCHANGED <<games, custom_background_path, bg_blur_amount, blur_slider,
                   disk, pc, candidates>>
    /\ ev' = Event("add_scan_folder", folder, TRUE, 0)
    /\ Tick

\* remove_scan_folder (the last definition); folder is the selected item's text
RemoveScanFolder(folder) ==
    /\ Idle
    /\ folder \in Range(custom_scan_folders)
    /\ LET IsIt(f) == f = folder IN
          custom_scan_folders' = remove_at(custom_scan_folders,
                                           first(custom_scan_folders, IsIt))
    /\ UNCHANGED <<games, custom_background_path, bg_blur_amount, blur_slider,
                   disk, pc, candidates>>
    /\ ev' = Event("remove_scan_folder", folder, TRUE, 0)
    /\ Tick

\* set_custom_background, the dialog accepted with path
SetCustomBackground(path, w) ==
    /\ Idle
    /\ custom_background_path' = path
    /\ UNCHANGED <<games, custom_scan_folders, bg_blur_amount>>
    /\ Save(w)
    /\ UNCHANGED <<blur_slider, pc, candidates>>
    /\ ev' = SaveEvent("set_custom_background", path, w)
    /\ Tick

\* the slider is moved to value: valueChanged -> set_background_blur(value)
SetBackgroundBlur(value, w) ==
    /\ Idle
    /\ value # blur_slider
    /\ blur_slider' = value
    /\ bg_blur_amount' = value
    /\ UNCHANGED <<games, custom_scan_folders, custom_background_path>>
    /\ Save(w)
    /\ UNCHANGED <<pc, candidates>>
    /\ ev' = SaveEvent("set_background_blur", "", w)
    /\ Tick

(***************************************************************************)
(* Launch: launch_selected_game, the last definition in the class.         *)
(***************************************************************************)
\* seconds measured from the start of the launched game to its end; the
\* difference of two time.time() readings is negative when the clock was set
\* back in between
Durations == {-30, 125}

\* launch_selected_game with the session bookkeeping of the module-level
\* function of that name: the measured seconds are added to total_playtime,
\* last_played is stamped and the catalog saved
LaunchSelectedGame_tracking(item, started, d) ==
    /\ Idle
    /\ item \in sidebar_paths \cup {None}
    /\ IF item # None /\ started
       THEN /\ games' = [games EXCEPT
                            ![game_at(games, item)].total_playtime = @ + d,
                            ![game_at(games, item)].last_played = "2024-01-02 10:00:00"]
            /\ UNCHANGED <<custom_scan_folders, custom_background_path, bg_blur_amount>>
            /\ Save("ok")
       ELSE UNCHANGED <<games, custom_scan_folders, custom_background_path,
                        bg_blur_amount, disk>>
    /\ UNCHANGED <<blur_slider, pc, candidates>>
    /\ ev' = IF item = None
             THEN Event("launch_selected_game", None, FALSE, 0)
             ELSE Event("launch_selected_game", item, started, IF started THEN d ELSE 0)
    /\ Tick

\* launch_selected_game stamping last_played and saving before it starts the
\* game, so that a start that fails leaves the stamp behind
LaunchSelectedGame_stamp_first(item, started, d) ==
    /\ Idle
    /\ item \in sidebar_paths \cup {None}
    /\ IF item # None
       THEN /\ games' = [games EXCEPT
                            ![game_at(games, item)].last_played = "2024-01-02 10:00:00"]
            /\ UNCHANGED <<custom_scan_folders, custom_background_path, bg_blur_amount>>
            /\ Save("ok")
       ELSE UNCHANGED <<games, custom_scan_folders, custom_background_path,
                        bg_blur_amount, disk>>
    /\ UNCHANGED <<blur_slider, pc, candidates>>
    /\ ev' = IF item = None
             THEN Event("launch_selected_game", None, FALSE, 0)
             ELSE Event("launch_selected_game", item, started, IF started THEN d ELSE 0)
    /\ Tick

\* item is the data of the current sidebar item, None when there is none;
\* started tells whether os.startfile returned (TRUE) or raised (FALSE);
\* d is how long the started game then ran.  Nothing is assigned or saved.
LaunchSelectedGame(item, started, d) ==
    /\ Idle
    /\ item \in sidebar_paths \cup {None}
    /\ UNCHANGED <<games, custom_scan_folders, custom_background_path,
                   bg_blur_amount, blur_slider, disk, pc, candidates>>
    /\ ev' = IF item = None
             THEN Event("launch_selected_game", None, FALSE, 0)
             ELSE Event("launch_selected_game", item, started, IF started THEN d ELSE 0)
    /\ Tick

(***************************************************************************)
(* detect_games.  The handler blocks in dlg.exec_(), a modal dialog: the   *)
(* scan is one step (pc "detect" while the dialog is open), the answer the *)
(* next.                                                                   *)
(***************************************************************************)
\* to_scan without the test of os.path.exists
to_scan_unfiltered(folders, present) == default_folders \o folders

\* [p for p in default_folders + self.custom_scan_folders if os.path.exists(p)]
to_scan(folders, present) ==
    LET Exists(p) == p \in present IN SelectSeq(default_folders \o folders, Exists)

\* every directory entry of every root
AllEntries == UNION {Range(scandir(root)) : root \in Roots}

\* exe_found = find_game_exe(entry.path) for every entry, computed once
exe_of == [e \in {entry.path : entry \in AllEntries} |-> find_game_exe(e, os_walk(e))]

\* scan_entry without the test against self.games
scan_entry_no_check(entry, gs) ==
    IF ~entry.is_dir THEN << >>
    ELSE LET exe == exe_of[entry.path]
         IN IF exe # None
            THEN << GameEntry(entry.name, exe, icon_of[exe]) >>
            ELSE << >>

\* the candidate of one os.scandir entry, as a list of none or one
scan_entry(entry, gs) ==
    IF ~entry.is_dir THEN << >>
    ELSE LET exe == exe_of[entry.path]
         IN IF exe # None /\ ~(\E i \in 1..Len(gs) : gs[i].path = exe)
            THEN << GameEntry(entry.name, exe, icon_of[exe]) >>
            ELSE << >>

RECURSIVE scan_entries(_, _)
\* for entry in os.scandir(root): ...
scan_entries(entries, gs) ==
    IF entries = << >> THEN << >>
    ELSE scan_entry(Head(entries), gs) \o scan_entries(Tail(entries), gs)

RECURSIVE scan_roots(_, _)
\* for root in to_scan: ...
scan_roots(roots, gs) ==
    IF roots = << >> THEN << >>
    ELSE scan_entries(scandir(Head(roots)), gs) \o scan_roots(Tail(roots), gs)

\* detect_games up to dlg.exec_(); present are the roots that exist, denied
\* those of them on which os.scandir(root) raises PermissionError or OSError.
\* Nothing in detect_games catches the exception: the handler ends there,
\* its candidates list is lost and no dialog opens.  What an exception that
\* leaves a slot does to the application depends on the PyQt5 build: it is
\* printed and the event loop goes on, or the process is aborted.
DetectScan(present, denied) ==
    /\ Idle
    /\ LET roots  == to_scan(custom_scan_folders, present)
           raised == \E i \in 1..Len(roots) : roots[i] \in denied
       IN /\ candidates' = IF raised THEN << >> ELSE scan_roots(roots, games)
          /\ IF raised
             THEN pc' \in {"run", "crashed"}
             ELSE pc' = IF candidates' = << >> THEN "run" ELSE "detect"
          /\ ev' = [Event("detect_games", "", ~raised /\ candidates' # << >>, 0)
                       EXCEPT !.roots = roots,
                              !.present = present \cap Range(default_folders \o
                                                              custom_scan_folders),
                              !.denied = denied \cap Range(roots)]
    /\ UNCHANGED <<games, custom_scan_folders, custom_background_path,
                   bg_blur_amount, blur_slider, disk>>
    /\ Tick

\* the loop over selected without the test against self.games
add_selected_unchecked(gs, selected) == gs \o selected

RECURSIVE add_selected(_, _)
\* for s in selected: if not any(g.path == s.path for g in self.games): append
add_selected(gs, selected) ==
    IF selected = << >> THEN gs
    ELSE LET s == Head(selected)
         IN add_selected(IF \E i \in 1..Len(gs) : gs[i].path = s.path
                         THEN gs ELSE Append(gs, s),
                         Tail(selected))

\* the dialog is accepted; rows are the selected rows, in the order
\* listw.selectedIndexes() returns them
DetectAccept(rows, w) ==
    /\ pc = "detect"
    /\ LET selected == [k \in 1..Len(rows) |-> candidates[rows[k]]]
       IN /\ Len(add_selected(games, selected)) <= MaxGames
          /\ games' = add_selected(games, selected)
    /\ UNCHANGED <<custom_scan_folders, custom_background_path, bg_blur_amount>>
    /\ Save(w)
    /\ pc' = "run"
    /\ candidates' = << >>
    /\ UNCHANGED blur_slider
    /\ ev' = [SaveEvent("detect_accept", "", w) EXCEPT !.roots = ev.roots, !.rows = rows]
    /\ Tick

\* the dialog is rejected
DetectCancel ==
    /\ pc = "detect"
    /\ pc' = "run"
    /\ candidates' = << >>
    /\ UNCHANGED <<games, custom_scan_folders, custom_background_path,
                   bg_blur_amount, blur_slider, disk>>
    /\ ev' = [Event("detect_cancel", "", FALSE, 0) EXCEPT !.roots = ev.roots]
    /\ Tick

Next ==
    \/ LoadGames
    \/ \E exe \in ManualChoices, w \in WriteOutcomes : AddGameManually(exe, w)
    \/ \E path \in sidebar_paths, new_name \in NewNames, w \in WriteOutcomes :
          RenameGame(path, new_name, w)
    \/ \E path \in sidebar_paths, confirm \in BOOLEAN, w \in WriteOutcomes :
          RemoveGame(path, confirm, w)
    \/ \E path \in sidebar_paths, text \in NoteTexts, w \in WriteOutcomes :
          EditNotes(path, text, w)
    \/ \E path \in sidebar_paths, w \in WriteOutcomes : ToggleFavorite(path, w)
    \/ \E confirm \in BOOLEAN, w \in WriteOutcomes : ResetGamesList(confirm, w)
    \/ \E folder \in FolderChoices : AddScanFolder(folder)
    \/ \E folder \in Range(custom_scan_folders) : RemoveScanFolder(folder)
    \/ \E path \in BackgroundChoices, w \in WriteOutcomes : SetCustomBackground(path, w)
    \/ \E value \in BlurChoices, w \in WriteOutcomes : SetBackgroundBlur(value, w)
    \/ \E item \in sidebar_paths \cup {None}, started \in BOOLEAN, d \in Durations :
          LaunchSelectedGame(item, started, d)
    \/ \E present \in SUBSET Roots : \E denied \in SUBSET present :
          DetectScan(present, denied)
    \/ \E rows \in SeqsNoRep(1..Len(candidates), Len(candidates)), w \in WriteOutcomes :
          DetectAccept(rows, w)
    \/ DetectCancel

Spec == Init /\ [][Next]_vars

(***************************************************************************)
(* find_game_exe on its own: any folder, any listing.                      *)
(***************************************************************************)
FindFolders == {"C:\\Games\\Halo", "C:\\Games\\Game2", "D:\\Lib\\FOO"}

\* file paths relative to the folder walked
FindFiles ==
    {"Halo.exe", "HaloLauncher.exe", "unitycrashhandler64.exe", "Launcher.exe",
     "foo.exe", "bin\\Halo_x64.EXE", "Launcher_Data.exe", "readme.txt"}

Resting ==
    /\ Constructed
    /\ disk = Absent
    /\ ev = Event("init", "", TRUE, 0)
    /\ steps = 0

InitFind ==
    /\ Resting
    /\ doc0 = None
    /\ pc = "find"
    /\ exe_found = None
    /\ \E fp \in FindFolders, names \in SeqsNoRep(FindFiles, MaxFiles) :
          /\ folder_path = fp
          /\ walk = [i \in 1..Len(names) |-> join(fp, names[i])]

\* exe_found = find_game_exe(entry.path)
FindGameExe ==
    /\ pc = "find"
    /\ exe_found' = find_game_exe(folder_path, walk)
    /\ pc' = "found"
    /\ UNCHANGED <<games, custom_scan_folders, custom_background_path,
                   bg_blur_amount, blur_slider, disk, candidates, folder_path,
                   walk, doc0, ev, steps>>

SpecFind == InitFind /\ [][FindGameExe]_vars

(***************************************************************************)
(* C5.  find_game_exe returns None iff there is no executable candidate;   *)
(* otherwise the first candidate whose lower-cased stem contains the       *)
(* folder's lower-cased base name and whose file name holds no exclusion   *)
(* substring; else the first non-excluded candidate whose file name holds  *)
(* "launcher"; else the first non-excluded candidate; else the first       *)
(* candidate.                                                              *)
(***************************************************************************)
C5_candidates == SelectSeq(walk, IsExe)

C5_FileName(c) == SubSeq(c, last_sep(c) + 1, Len(c))

C5_Excluded(c) ==
    \/ contains("unitycrashhandler", lower(C5_FileName(c)))
    \/ contains("_data", lower(C5_FileName(c)))
    \/ contains("_x64", lower(C5_FileName(c)))

\* the file name without its final ".exe", in lower case
C5_Stem(c) == lower(SubSeq(C5_FileName(c), 1, Len(C5_FileName(c)) - 4))

C5_Rule1(c) ==
    /\ contains(lower(C5_FileName(folder_path)), C5_Stem(c))
    /\ ~C5_Excluded(c)

C5_Rule2(c) == contains("launcher", lower(C5_FileName(c))) /\ ~C5_Excluded(c)

C5_Rule3(c) == ~C5_Excluded(c)

C5_Rule4(c) == TRUE

\* r is the first candidate that Rule admits
C5_IsFirst(r, Rule(_)) ==
    \E i \in 1..Len(C5_candidates) :
        /\ C5_candidates[i] = r
        /\ Rule(r)
        /\ \A j \in 1..(i - 1) : ~Rule(C5_candidates[j])

C5_Some(Rule(_)) == \E i \in 1..Len(C5_candidates) : Rule(C5_candidates[i])

C5_FindGameExeRule ==
    pc = "found" =>
        /\ (exe_found = None) <=> (C5_candidates = << >>)
        /\ C5_candidates # << >> =>
              IF C5_Some(C5_Rule1) THEN C5_IsFirst(exe_found, C5_Rule1)
              ELSE IF C5_Some(C5_Rule2) THEN C5_IsFirst(exe_found, C5_Rule2)
              ELSE IF C5_Some(C5_Rule3) THEN C5_IsFirst(exe_found, C5_Rule3)
              ELSE C5_IsFirst(exe_found, C5_Rule4)

\* the launcher rule decided: the crash handler is listed first, no name matches
C5_Witness ==
    /\ pc = "found"
    /\ folder_path = "C:\\Games\\Game2"
    /\ walk = << "C:\\Games\\Game2\\unitycrashhandler64.exe",
                 "C:\\Games\\Game2\\foo.exe",
                 "C:\\Games\\Game2\\Launcher.exe" >>
    /\ exe_found = "C:\\Games\\Game2\\Launcher.exe"

(***************************************************************************)
(* C6.  Folder Halo holding exactly Halo.exe, unitycrashhandler64.exe and  *)
(* HaloLauncher.exe.  As claimed: Halo.exe is chosen in every listing      *)
(* order.  As amended: Halo.exe is chosen when it is listed before         *)
(* HaloLauncher.exe, and HaloLauncher.exe (which also matches the folder   *)
(* name) when that one is listed first.                                    *)
(***************************************************************************)
C6_Halo         == "C:\\Games\\Halo\\Halo.exe"
C6_HaloLauncher == "C:\\Games\\Halo\\HaloLauncher.exe"
C6_CrashHandler == "C:\\Games\\Halo\\unitycrashhandler64.exe"

C6_Case ==
    /\ pc = "found"
    /\ folder_path = "C:\\Games\\Halo"
    /\ Len(walk) = 3
    /\ Range(walk) = {C6_Halo, C6_HaloLauncher, C6_CrashHandler}

C6_Index(f) == CHOOSE i \in 1..Len(walk) : walk[i] = f

C6_AnyOrderPicksHalo == C6_Case => exe_found = C6_Halo

C6_HaloWhenListedFirst ==
    C6_Case =>
        exe_found = IF C6_Index(C6_Halo) < C6_Index(C6_HaloLauncher)
                    THEN C6_Halo ELSE C6_HaloLauncher

C6_Witness ==
    /\ C6_Case
    /\ walk = << C6_CrashHandler, C6_Halo, C6_HaloLauncher >>
    /\ exe_found = C6_Halo

(***************************************************************************)
(* Round trip: a launcher holding document D saves it, is closed, and a    *)
(* newly constructed launcher loads the file.                              *)
(***************************************************************************)
\* icon, favourite, notes, last played, playtime: defaults and other values
RtProfiles ==
    { <<None, FALSE, "", "Never", 0>>,
      <<"C:\\Games\\Halo\\Halo.bmp", TRUE, "gg", "2024-01-01 10:00:00", 125>>,
      <<None, TRUE, "", "2024-01-01 10:00:00", 0>>,
      <<"C:\\Games\\Halo\\Halo.bmp", FALSE, "gg", "Never", 125>> }

RtRecords ==
    { [name |-> n, path |-> p, icon_path |-> f[1], is_favorite |-> f[2],
       notes |-> f[3], last_played |-> f[4], total_playtime |-> f[5]] :
      n \in {"Halo", "Zed"}, p \in {HaloExe, LauncherExe}, f \in RtProfiles }

RtFolders == { << >>, << LibRoot >>, << LibRoot, GamesRoot >> }
RtBackgrounds == {None, "C:\\bg.png"}
RtBlurs == {0, 7, 20}

RtGames == UNION {[1..k -> RtRecords] : k \in 0..MaxDocGames}

InitRoundTrip ==
    /\ games \in RtGames
    /\ custom_scan_folders \in RtFolders
    /\ custom_background_path \in RtBackgrounds
    /\ bg_blur_amount \in RtBlurs
    /\ blur_slider = bg_blur_amount
    /\ candidates = << >>
    /\ disk = Absent
    /\ pc = "rt_mem"
    /\ doc0 = [games |-> games, custom_scan_folders |-> custom_scan_folders,
               custom_background_path |-> custom_background_path,
               bg_blur_amount |-> bg_blur_amount]
    /\ folder_path = "" /\ walk = << >> /\ exe_found = None
    /\ ev = Event("init", "", TRUE, 0)
    /\ steps = 0

\* self.save_games() with the document in memory
SaveGames ==
    /\ pc = "rt_mem"
    /\ disk' = save_games(games, custom_scan_folders, custom_background_path,
                          bg_blur_amount)
    /\ pc' = "rt_saved"
    /\ ev' = Event("save_games", "", TRUE, 0)
    /\ UNCHANGED <<games, custom_scan_folders, custom_background_path,
                   bg_blur_amount, blur_slider, candidates, folder_path, walk,
                   exe_found, doc0, steps>>

\* the launcher is closed and started again: __init__ up to load_games
Restart ==
    /\ pc = "rt_saved"
    /\ games' = << >>
    /\ custom_scan_folders' = << >>
    /\ custom_background_path' = None
    /\ bg_blur_amount' = 0
    /\ blur_slider' = 0
    /\ candidates' = << >>
    /\ pc' = "boot"
    /\ ev' = Event("init", "", TRUE, 0)
    /\ UNCHANGED <<disk, folder_path, walk, exe_found, doc0, steps>>

NextRoundTrip == SaveGames \/ Restart \/ LoadGames

SpecRoundTrip == InitRoundTrip /\ [][NextRoundTrip]_vars

(***************************************************************************)
(* C4.  For every document D, save_games followed by load_games of the     *)
(* written file yields the same records in the same order with every field *)
(* equal, and the same scan folders, background path and blur value.       *)
(***************************************************************************)
C4_RoundTrip ==
    (pc = "run" /\ ev.op = "load_games") =>
        /\ ev.ok
        /\ Len(games) = Len(doc0.games)
        /\ \A i \in 1..Len(games) :
              /\ games[i].name = doc0.games[i].name
              /\ games[i].path = doc0.games[i].path
              /\ games[i].icon_path = doc0.games[i].icon_path
              /\ games[i].is_favorite = doc0.games[i].is_favorite
              /\ games[i].notes = doc0.games[i].notes
              /\ games[i].last_played = doc0.games[i].last_played
              /\ games[i].total_playtime = doc0.games[i].total_playtime
        /\ custom_scan_folders = doc0.custom_scan_folders
        /\ custom_background_path = doc0.custom_background_path
        /\ bg_blur_amount = doc0.bg_blur_amount

\* two different records, non-default fields, folders, background and blur
C4_Witness ==
    /\ pc = "run" /\ ev.op = "load_games"
    /\ Len(games) = 2
    /\ games[1].path # games[2].path
    /\ games[1].total_playtime = 125 /\ games[1].is_favorite
    /\ games[2].last_played = "Never" /\ games[2].icon_path = None
    /\ Len(custom_scan_folders) = 2
    /\ custom_background_path # None
    /\ bg_blur_amount = 7

(***************************************************************************)
(* load_games on its own: any file content.                                *)
(***************************************************************************)
\* the dict d with only the keys in keys
restrict(d, keys) == [k \in keys |-> d[k]]

SchemaKeys == {"name", "path", "icon_path", "is_favorite", "notes", "last_played",
               "total_playtime"}
OptionalKeys == SchemaKeys \ {"name", "path"}

\* two entries with every key of the schema and one that is not part of it
FullEntries ==
    { [name |-> "Halo", path |-> HaloExe, icon_path |-> "C:\\Games\\Halo\\Halo.bmp",
       is_favorite |-> TRUE, notes |-> "gg", last_played |-> "2024-01-01 10:00:00",
       total_playtime |-> 125, genre |-> "fps"],
      [name |-> "Game2", path |-> LauncherExe, icon_path |-> None,
       is_favorite |-> FALSE, notes |-> "", last_played |-> "Never",
       total_playtime |-> 0, genre |-> "rpg"] }

LoadKeySets ==
    { SchemaKeys \cup {"genre"}, SchemaKeys, {"name", "path"}, {"name", "path", "genre"},
      SchemaKeys \ {"name"}, SchemaKeys \ {"path"}, {"genre"} }
    \cup { {"name", "path", k} : k \in OptionalKeys }
    \cup { SchemaKeys \ {k} : k \in OptionalKeys }

LoadEntries == { restrict(e, ks) : e \in FullEntries, ks \in LoadKeySets }

MaxLoadGames == 2   \* longest games array of a loaded file

\* the integers a file may hold under custom_background_blur: in the
\* slider's range, below it and above it
LoadBlurs == {-5, 0, 7, 25}

LoadDocs ==
    { [games |-> xs, custom_scan_folders |-> << LibRoot >>,
       custom_background_path |-> "C:\\bg.png", custom_background_blur |-> b] :
      xs \in UNION {[1..k -> LoadEntries] : k \in 0..MaxLoadGames}, b \in LoadBlurs }
    \cup { [custom_scan_folders |-> << LibRoot >>], [games |-> << >>] }

LoadFiles == {Absent, Garbage} \cup { JsonFile(d) : d \in LoadDocs }

InitLoad ==
    /\ Constructed
    /\ disk \in LoadFiles
    /\ pc = "boot"
    /\ folder_path = "" /\ walk = << >> /\ exe_found = None /\ doc0 = None
    /\ ev = Event("init", "", TRUE, 0)
    /\ steps = 0

SpecLoad == InitLoad /\ [][LoadGames]_vars

(***************************************************************************)
(* C10.  When load_games fails (unreadable file, invalid JSON, or an entry *)
(* without name or path at any position of the games array), the catalog   *)
(* in memory afterwards is the empty document: no games, no scan folders,  *)
(* no background path, blur 0.                                             *)
(***************************************************************************)
C10_FailedLoadLeavesEmptyDocument ==
    (ev.op = "load_games" /\ ~ev.ok) =>
        /\ games = << >>
        /\ custom_scan_folders = << >>
        /\ custom_background_path = None
        /\ bg_blur_amount = 0

(***************************************************************************)
(* Claims about the running launcher (Spec).                               *)
(***************************************************************************)
Paths(gs) == {gs[i].path : i \in 1..Len(gs)}

Count(gs, p) == Cardinality({i \in 1..Len(gs) : gs[i].path = p})

Saved == disk = save_games(games, custom_scan_folders, custom_background_path,
                           bg_blur_amount)

(***************************************************************************)
(* C1.  In every reachable state of the catalog no two records of the      *)
(* games list have the same path.                                          *)
(***************************************************************************)
C1_PathsUnique ==
    \A i, j \in 1..Len(games) : i # j => games[i].path # games[j].path

(***************************************************************************)
(* C2.  Adding a game whose path is already in the catalog, by manual add  *)
(* or by accepting a detected candidate, leaves the games list unchanged   *)
(* (so that adding one path twice leaves one record with it).              *)
(***************************************************************************)
C2_DuplicateAddIsNoOp ==
    [][ /\ (ev'.op = "add_game_manually" /\ ev'.arg \in Paths(games))
              => games' = games
        /\ ev'.op \in {"add_game_manually", "detect_accept"}
              => \A p \in Paths(games) : Count(games', p) = Count(games, p)
      ]_vars

(***************************************************************************)
(* C3.  After every completed mutating operation (add, remove, rename,     *)
(* edit notes, toggle favourite, reset, add or remove a scan folder, set   *)
(* background, set blur) the document on disk equals the catalog in        *)
(* memory.                                                                 *)
(***************************************************************************)
C3_MutatingOps ==
    {"add_game_manually", "detect_accept", "remove_game", "rename_game",
     "edit_notes", "toggle_favorite", "reset_games_list", "add_scan_folder",
     "remove_scan_folder", "set_custom_background", "set_background_blur"}

\* an operation that was declined or whose write failed is not a completed one
C3_DiskEqualsMemory ==
    (pc = "run" /\ ev.op \in C3_MutatingOps /\ ev.ok /\ ev.write \in {"none", "ok"})
        => Saved

(***************************************************************************)
(* C7.  While the dialog of detect_games shows its candidates: no          *)
(* candidate has the path of a record of the catalog, and a scanned child  *)
(* folder whose chosen executable is in the catalog has no candidate at    *)
(* all (no other file of that folder is proposed).                         *)
(***************************************************************************)
C7_ScannedDirs ==
    {e \in UNION {Range(scandir(ev.roots[k])) : k \in 1..Len(ev.roots)} : e.is_dir}

C7_Under(path, folder) ==
    /\ Len(path) > Len(folder)
    /\ SubSeq(path, 1, Len(folder) + 1) = folder \o "\\"

C7_CandidatesAreNew ==
    (pc = "detect" /\ ev.op = "detect_games") =>
        /\ \A i \in 1..Len(candidates) : candidates[i].path \notin Paths(games)
        /\ \A e \in C7_ScannedDirs :
              exe_of[e.path] \in Paths(games)
                 => \A i \in 1..Len(candidates) : ~C7_Under(candidates[i].path, e.path)

\* both roots scanned, Halo.exe in the catalog: only Game2 is proposed
C7_Witness ==
    /\ pc = "detect" /\ ev.op = "detect_games"
    /\ Range(ev.roots) = {GamesRoot, LibRoot}
    /\ HaloExe \in Paths(games)
    /\ Len(candidates) = 1
    /\ candidates[1].path = LauncherExe

(***************************************************************************)
(* C8.  A record's last_played is "Never" when it is created, and after a  *)
(* launch of the selected game completes without error that record's       *)
(* last_played is a timestamp and the change is on disk.                   *)
(***************************************************************************)
C8_LaunchSetsLastPlayed ==
    [][ /\ ev'.op \in {"add_game_manually", "detect_accept"}
              => \A i \in (Len(games) + 1)..Len(games') :
                    games'[i].last_played = "Never"
        /\ (ev'.op = "launch_selected_game" /\ ev'.ok)
              => /\ games'[game_at(games', ev'.arg)].last_played # "Never"
                 /\ Saved'
      ]_vars

(***************************************************************************)
(* C9.  When a launch session of a game completes after d seconds, that    *)
(* record's total_playtime is its previous value plus d and the            *)
(* total_playtime of every other record is unchanged.                      *)
(***************************************************************************)
C9_LaunchAddsPlaytime ==
    [][ (ev'.op = "launch_selected_game" /\ ev'.ok)
          => /\ Len(games') = Len(games)
             /\ \A i \in 1..Len(games) :
                   games'[i].total_playtime =
                      games[i].total_playtime
                        + (IF i = game_at(games, ev'.arg) THEN ev'.d ELSE 0)
      ]_vars

(***************************************************************************)
(* C11.  When the listing of a scan root raises a permission or I/O error  *)
(* during detect_games, detection is given up for that root only: the      *)
(* candidates of all the other existing roots, those scanned before it and *)
(* those after it, are produced and offered in the dialog.                 *)
(***************************************************************************)
C11_Readable(root) == root \notin ev.denied

C11_OtherRootsCandidates == scan_roots(SelectSeq(ev.roots, C11_Readable), games)

C11_ScanErrorIsolatedToRoot ==
    (ev.op = "detect_games" /\ ev.denied # {}) =>
        /\ candidates = C11_OtherRootsCandidates
        /\ C11_OtherRootsCandidates # << >> => pc = "detect"

(***************************************************************************)
(* C12.  When the write of save_games fails during a mutating operation    *)
(* (add, remove, rename, edit notes, toggle favourite, reset, set          *)
(* background, set blur), the launcher keeps running and the catalog in    *)
(* memory after the operation is the catalog in memory before it.          *)
(***************************************************************************)
C12_Ops ==
    {"add_game_manually", "remove_game", "rename_game", "edit_notes",
     "toggle_favorite", "reset_games_list", "set_custom_background",
     "set_background_blur"}

C12_WriteFailureKeepsMemory ==
    [][ (ev'.op \in C12_Ops /\ ev'.write \in {"open_fails", "write_fails"})
          => /\ pc' = "run"
             /\ games' = games
             /\ custom_scan_folders' = custom_scan_folders
             /\ custom_background_path' = custom_background_path
             /\ bg_blur_amount' = bg_blur_amount
      ]_vars

(***************************************************************************)
(* C13.  After a confirmed remove_game of the game with path p no record   *)
(* with path p is left in the games list, and the records with any other   *)
(* path are all still there, unchanged and in the same order; a removal    *)
(* that is declined changes neither the catalog nor the file.              *)
(***************************************************************************)
C13_Others(gs, p) == LET Other(g) == g.path # p IN SelectSeq(gs, Other)

C13_RemoveGameFrame ==
    [][ /\ (ev'.op = "remove_game" /\ ev'.ok)
              => /\ ev'.arg \notin Paths(games')
                 /\ C13_Others(games', ev'.arg) = C13_Others(games, ev'.arg)
                 /\ UNCHANGED <<custom_scan_folders, custom_background_path,
                                bg_blur_amount>>
        /\ (ev'.op = "remove_game" /\ ~ev'.ok)
              => UNCHANGED <<games, custom_scan_folders, custom_background_path,
                             bg_blur_amount, disk>>
      ]_vars

\* the same without the demand that no record with path p is left
C13_RemoveGameFrameOnly ==
    [][ /\ (ev'.op = "remove_game" /\ ev'.ok)
              => /\ Len(games') = Len(games) - 1
                 /\ C13_Others(games', ev'.arg) = C13_Others(games, ev'.arg)
                 /\ UNCHANGED <<custom_scan_folders, custom_background_path,
                                bg_blur_amount>>
        /\ (ev'.op = "remove_game" /\ ~ev'.ok)
              => UNCHANGED <<games, custom_scan_folders, custom_background_path,
                             bg_blur_amount, disk>>
      ]_vars

C15_BlurInRange ==
    pc = "run" => bg_blur_amount \in slider_min..slider_max

(***************************************************************************)
(* C16.  When the launch of the selected game fails (os.startfile raises:  *)
(* the executable is missing or access is denied) the launcher goes on     *)
(* running and nothing changes: no field of any record, no setting of the  *)
(* catalog, and not the file on disk.                                      *)
(***************************************************************************)
C16_FailedLaunchChangesNothing ==
    [][ (ev'.op = "launch_selected_game" /\ ev'.arg # None /\ ~ev'.ok)
          => /\ pc' = "run"
             /\ UNCHANGED <<games, custom_scan_folders, custom_background_path,
                            bg_blur_amount, blur_slider, disk>>
      ]_vars

\* the launch of a game of the catalog has just failed
C16_Witness ==
    /\ ev.op = "launch_selected_game" /\ ~ev.ok
    /\ ev.arg \in Paths(games)
    /\ pc = "run"

(***************************************************************************)
(* C17.  A default or custom scan root that does not exist on disk gives   *)
(* no candidate and no error, and the roots that do exist are scanned in   *)
(* the order of the input: the default folders first, then the custom scan *)
(* folders.                                                                *)
(***************************************************************************)
C17_Input == default_folders \o custom_scan_folders

C17_Exists(root) == root \in ev.present

C17_Missing == Range(C17_Input) \ ev.present

C17_MissingRootSkipped ==
    (ev.op = "detect_games" /\ ev.denied = {}) =>
        /\ pc \in {"run", "detect"}
        /\ ev.roots = SelectSeq(C17_Input, C17_Exists)
        /\ candidates = scan_roots(SelectSeq(C17_Input, C17_Exists), games)
        /\ \A i \in 1..Len(candidates), root \in C17_Missing :
              ~C7_Under(candidates[i].path, root)

\* C:\Games, a default folder, is missing and the custom folder D:\Lib, after
\* it in the input, exists: the scan went over D:\Lib alone and found Game2
C17_Witness ==
    /\ ev.op = "detect_games" /\ ev.denied = {}
    /\ GamesRoot \in C17_Missing
    /\ ev.roots = << LibRoot >>
    /\ pc = "detect"
    /\ Len(candidates) = 1 /\ candidates[1].path = LauncherExe

(***************************************************************************)
(* C18.  For every entry of the file's games array that has name and path, *)
(* load_games builds a record whose icon_path, is_favorite, notes,         *)
(* last_played and total_playtime are the stored values where the key is   *)
(* present and None, false, "", "Never" and 0 where it is not; a key that  *)
(* is not part of the schema is ignored and does not make the load fail.   *)
(***************************************************************************)
C18_Stored(x, key, default) == IF key \in DOMAIN x THEN x[key] ELSE default

C18_Built(x, g) ==
    /\ DOMAIN g = SchemaKeys
    /\ g.name = x.name
    /\ g.path = x.path
    /\ g.icon_path = C18_Stored(x, "icon_path", None)
    /\ g.is_favorite = C18_Stored(x, "is_favorite", FALSE)
    /\ g.notes = C18_Stored(x, "notes", "")
    /\ g.last_played = C18_Stored(x, "last_played", "Never")
    /\ g.total_playtime = C18_Stored(x, "total_playtime", 0)

C18_Entries(file) ==
    IF "games" \in DOMAIN file.data THEN file.data.games ELSE << >>

C18_HasNameAndPath(x) == {"name", "path"} \subseteq DOMAIN x

\* the records built are those of the entries, one by one; and a file all of
\* whose entries have name and path, whatever other keys they have or lack,
\* loads without failure into as many records as it has entries
C18_LoadMergesDefaults ==
    [][ (ev'.op = "load_games" /\ disk.kind = "json")
          => /\ Len(games') <= Len(C18_Entries(disk))
             /\ \A i \in 1..Len(games') : C18_Built(C18_Entries(disk)[i], games'[i])
             /\ (\A i \in 1..Len(C18_Entries(disk)) :
                    C18_HasNameAndPath(C18_Entries(disk)[i]))
                   => /\ ev'.ok
                      /\ Len(games') = Len(C18_Entries(disk))
      ]_vars

\* loaded: an entry with name, path and the unknown key genre only, which
\* got every default, and an entry with every key stored, which kept them
C18_Witness ==
    /\ pc = "run" /\ ev.op = "load_games" /\ ev.ok
    /\ disk.kind = "json"
    /\ Len(C18_Entries(disk)) = 2 /\ Len(games) = 2
    /\ DOMAIN C18_Entries(disk)[1] = {"name", "path", "genre"}
    /\ games[1] = GameEntry("Game2", LauncherExe, None)
    /\ "genre" \in DOMAIN C18_Entries(disk)[2]
    /\ games[2].is_favorite /\ games[2].total_playtime = 125
    /\ games[2].notes = "gg" /\ games[2].icon_path # None

(***************************************************************************)
(* C19.  For a non-empty list of candidates find_game_exe returns one of   *)
(* the candidates; the one it returns has an excluded file name (one that  *)
(* contains "unitycrashhandler", "_data" or "_x64", letter case ignored)   *)
(* only when every candidate has: as soon as one candidate is not excluded *)
(* the result is not excluded.                                             *)
(***************************************************************************)
C19_SomeNotExcluded ==
    \E i \in 1..Len(C5_candidates) : ~C5_Excluded(C5_candidates[i])

C19_ResultIsBestEffort ==
    (pc = "found" /\ C5_candidates # << >>) =>
        /\ \E i \in 1..Len(C5_candidates) : C5_candidates[i] = exe_found
        /\ C19_SomeNotExcluded => ~C5_Excluded(exe_found)
        /\ C5_Excluded(exe_found) =>
              \A i \in 1..Len(C5_candidates) : C5_Excluded(C5_candidates[i])

\* two excluded executables are listed before the only one that is not, and
\* that one, which matches neither the folder name nor "launcher", is returned
C19_Witness ==
    /\ pc = "found"
    /\ folder_path = "C:\\Games\\Game2"
    /\ walk = << "C:\\Games\\Game2\\unitycrashhandler64.exe",
                 "C:\\Games\\Game2\\bin\\Halo_x64.EXE",
                 "C:\\Games\\Game2\\foo.exe" >>
    /\ exe_found = "C:\\Games\\Game2\\foo.exe"

\* every candidate is excluded: the first one is returned
C19_WitnessAllExcluded ==
    /\ pc = "found"
    /\ Len(C5_candidates) >= 2
    /\ \A i \in 1..Len(C5_candidates) : C5_Excluded(C5_candidates[i])
    /\ exe_found = C5_candidates[1]

(***************************************************************************)
(* C20.  Accepting the candidates of detect_games never leaves two records *)
(* with one path in the catalog, even when the candidates of the scan held *)
(* the same executable more than once (a custom scan folder that is also a *)
(* default root): paths that were distinct before are distinct after.      *)
(* Cancelling the dialog leaves catalog and file as they were.             *)
(***************************************************************************)
C20_AcceptKeepsPathsDistinct ==
    [][ /\ (ev'.op = "detect_accept" /\ C1_PathsUnique) => C1_PathsUnique'
        /\ ev'.op = "detect_cancel"
              => UNCHANGED <<games, custom_scan_folders, custom_background_path,
                             bg_blur_amount, disk>>
      ]_vars

\* C:\Games was scanned twice, as default and as custom folder, so Halo was
\* offered in two rows; both rows were accepted and one Halo record was added
C20_Witness ==
    /\ ev.op = "detect_accept"
    /\ ev.roots = << GamesRoot, GamesRoot >>
    /\ Len(ev.rows) = 2
    /\ Count(games, HaloExe) = 1
    /\ C1_PathsUnique

====
